---------------------------- MODULE Spec2Model ----------------------------
(*
  AirSense AI / VayuTrack Streamlit dashboards (src/app.py, src/app1.py).

  A Streamlit server runs one script; every browser session has a private
  st.session_state, and every user interaction or st.rerun() executes the
  whole script once more for that session.  Functions decorated with
  @st.cache_data keep their return value in a store of the server process,
  keyed by their arguments.

  Numbers.  AQI values are Python floats.  They are modelled as integers in
  units of 1/Scale AQI, so that 50*Scale is the breakpoint 50 and
  50*Scale + 1 is the smallest representable value above it.  NaN is the one
  non-number input the classifier can be handed; every comparison with it
  is false.
*)
EXTENDS Integers, Sequences, FiniteSets, TLC

VARIABLES
    script,         \* which script the server runs: "app" or "app1"
    session_state,  \* session -> that session's st.session_state (a record)
    forecast_cache, \* the @st.cache_data store of generate_forecast_data
    page,           \* what the latest run of the script put on the page
    rerun,          \* session -> the rerun its latest run asked for, if any
    call            \* a direct call of a helper: its arguments and result

vars == <<script, session_state, forecast_cache, page, rerun, call>>

\* The browser sessions connected to the server.
Sessions == {"s1", "s2"}

\* Resolution of the number model: representable values per AQI unit.
Scale == 4

\* float('nan'), encoded as an integer far outside every modelled range; the
\* comparisons below single it out, and no arithmetic is ever done on it.
NaN == -(2 ^ 30)

\* Python's  a <= b  on floats: false as soon as an operand is NaN.
Le(a, b) == a # NaN /\ b # NaN /\ a <= b

\* Python's  a > b  on floats.
Gt(a, b) == a # NaN /\ b # NaN /\ a > b

\* Python's  a < b  on floats.
Lt(a, b) == a # NaN /\ b # NaN /\ a < b

-----------------------------------------------------------------------------
(* The AQI classifier: three parallel if/elif chains. *)

\* A colour chain written with the complementary test,  not (aqi > bound).
ColorByNotGreater(aqi) ==
    IF ~Gt(aqi, 50 * Scale) THEN "#10b981"
    ELSE IF ~Gt(aqi, 100 * Scale) THEN "#84cc16"
    ELSE IF ~Gt(aqi, 200 * Scale) THEN "#f59e0b"
    ELSE IF ~Gt(aqi, 300 * Scale) THEN "#ef4444"
    ELSE IF ~Gt(aqi, 400 * Scale) THEN "#b91c1c"
    ELSE "#7f1d1d"

get_aqi_color(aqi) ==
    IF Le(aqi, 50 * Scale) THEN "#10b981"
    ELSE IF Le(aqi, 100 * Scale) THEN "#84cc16"
    ELSE IF Le(aqi, 200 * Scale) THEN "#f59e0b"
    ELSE IF Le(aqi, 300 * Scale) THEN "#ef4444"
    ELSE IF Le(aqi, 400 * Scale) THEN "#b91c1c"
    ELSE "#7f1d1d"

\* A classifier that tests the band below its bound first.
LevelDescending(aqi) ==
    IF Le(aqi, 100 * Scale) THEN "Satisfactory"
    ELSE IF Le(aqi, 50 * Scale) THEN "Good"
    ELSE IF Le(aqi, 200 * Scale) THEN "Moderate"
    ELSE IF Le(aqi, 300 * Scale) THEN "Poor"
    ELSE IF Le(aqi, 400 * Scale) THEN "Very Poor"
    ELSE "Severe"

\* A classifier that rejects readings below zero.
LevelNonNegativeOnly(aqi) ==
    IF Le(0, aqi) /\ Le(aqi, 50 * Scale) THEN "Good"
    ELSE IF Le(0, aqi) /\ Le(aqi, 100 * Scale) THEN "Satisfactory"
    ELSE IF Le(0, aqi) /\ Le(aqi, 200 * Scale) THEN "Moderate"
    ELSE IF Le(0, aqi) /\ Le(aqi, 300 * Scale) THEN "Poor"
    ELSE IF Le(0, aqi) /\ Le(aqi, 400 * Scale) THEN "Very Poor"
    ELSE IF Le(0, aqi) THEN "Severe"
    ELSE "None"

\* A classifier whose bounds belong to the band above them.
LevelBoundsExclusive(aqi) ==
    IF Lt(aqi, 50 * Scale) THEN "Good"
    ELSE IF Lt(aqi, 100 * Scale) THEN "Satisfactory"
    ELSE IF Lt(aqi, 200 * Scale) THEN "Moderate"
    ELSE IF Lt(aqi, 300 * Scale) THEN "Poor"
    ELSE IF Lt(aqi, 400 * Scale) THEN "Very Poor"
    ELSE "Severe"

get_aqi_level(aqi) ==
    IF Le(aqi, 50 * Scale) THEN "Good"
    ELSE IF Le(aqi, 100 * Scale) THEN "Satisfactory"
    ELSE IF Le(aqi, 200 * Scale) THEN "Moderate"
    ELSE IF Le(aqi, 300 * Scale) THEN "Poor"
    ELSE IF Le(aqi, 400 * Scale) THEN "Very Poor"
    ELSE "Severe"

\* An advisory chain whose fourth bound is exclusive.
AdvisoryStrictBound(aqi) ==
    IF Le(aqi, 50 * Scale) THEN "Air quality is good. Enjoy outdoor activities!"
    ELSE IF Le(aqi, 100 * Scale) THEN "Air quality is acceptable for most people."
    ELSE IF Le(aqi, 200 * Scale) THEN "Sensitive groups should limit outdoor exposure."
    ELSE IF Le(aqi, 300 * Scale - 1) THEN "Everyone should limit outdoor activities."
    ELSE IF Le(aqi, 400 * Scale) THEN "Avoid outdoor activities. Use N95 masks."
    ELSE "EMERGENCY: Stay indoors. Health alert for all!"

get_health_advisory(aqi) ==
    IF Le(aqi, 50 * Scale) THEN "Air quality is good. Enjoy outdoor activities!"
    ELSE IF Le(aqi, 100 * Scale) THEN "Air quality is acceptable for most people."
    ELSE IF Le(aqi, 200 * Scale) THEN "Sensitive groups should limit outdoor exposure."
    ELSE IF Le(aqi, 300 * Scale) THEN "Everyone should limit outdoor activities."
    ELSE IF Le(aqi, 400 * Scale) THEN "Avoid outdoor activities. Use N95 masks."
    ELSE "EMERGENCY: Stay indoors. Health alert for all!"

-----------------------------------------------------------------------------
(* Python's built-in min and max on two arguments: the first argument is
   kept unless the second compares strictly smaller (larger). *)

min(a, b) == IF Lt(b, a) THEN b ELSE a

max(a, b) == IF Gt(b, a) THEN b ELSE a

-----------------------------------------------------------------------------
(* The forecast generator. *)

\* 50000 * sin(i / 12), rounded, for i = 0 .. 71 (entry i + 1 of the tuple).
SinMilli ==
    << 0, 4162, 8295, 12370, 16360, 20236, 23971, 27540,
       30918, 34082, 37009, 39679, 42074, 44176, 45972, 47449,
       48597, 49407, 49875, 49996, 49770, 49199, 48287, 47039,
       45465, 43575, 41383, 38904, 36154, 33154, 29924, 26486,
       22864, 19083, 15170, 11152, 7056, 2911, -1254, -5410,
       -9528, -13581, -17539, -21376, -25064, -28578, -31894, -34988,
       -37840, -40429, -42738, -44749, -46451, -47830, -48877, -49584,
       -49948, -49965, -49635, -48960, -47946, -46599, -44929, -42947,
       -40666, -38104, -35277, -32205, -28910, -25414, -21742, -17918 >>

\* np.sin(i / 12) * 50 at the model's resolution.
np_sin_50(i) == (SinMilli[i + 1] * Scale) \div 1000

\* A forecast that starts from the live walk's seed.
BaseIsLiveSeed == 287 * Scale

\* A forecast that starts from a session's live value.
BaseIsLiveAqi ==
    LET live == {s \in Sessions : "current_aqi" \in DOMAIN session_state[s]}
    IN  IF live = {} THEN 287 * Scale
        ELSE session_state[CHOOSE s \in live : TRUE].current_aqi

base_aqi == 250 * Scale

\* One element of data: PM25 is aqi * 0.45, kept in units of 1/(20*Scale)
\* so that it is the integer 9 * aqi.  The 'Time' label (wall clock plus i
\* hours) is not modelled.
ForecastPointUnclamped(i, aqi) == [Hour |-> i, AQI |-> aqi, PM25 |-> 9 * aqi]

\* A point whose PM25 is taken from the clamped value.
ForecastPointPm25OfAqi(i, aqi) ==
    LET clamped == max(50 * Scale, min(500 * Scale, aqi))
    IN  [Hour |-> i, AQI |-> clamped, PM25 |-> 9 * clamped]

forecast_point(i, aqi) ==
    [Hour |-> i, AQI |-> max(50 * Scale, min(500 * Scale, aqi)), PM25 |-> 9 * aqi]

\* A generator that produces the first point before it tests the horizon.
GenerateAtLeastOnePoint(hours, noise) ==
    [k \in 1 .. max(1, hours) |->
        forecast_point(k - 1, base_aqi + np_sin_50(k - 1) + noise[k - 1])]

\* The undecorated function.  Iteration i of the loop appends element i + 1
\* of data and reads nothing an earlier iteration wrote, so data is given
\* element by element; noise[i] is the sample np.random.normal(0, 10)
\* returns in iteration i.  range(hours) is empty for hours <= 0, and
\* 1 .. hours is then empty too.
generate_forecast_data(hours, noise) ==
    [k \in 1 .. hours |->
        forecast_point(k - 1, base_aqi + np_sin_50(k - 1) + noise[k - 1])]

\* A decorator that runs the body on every call.
StCacheAlwaysRuns(cache, hours, noise) ==
    LET data == generate_forecast_data(hours, noise)
    IN  [value |-> data, cache |-> (hours :> data) @@ cache, ran |-> TRUE]

\* @st.cache_data: the body runs when no value is stored for the argument,
\* and its value is stored; otherwise the stored value is returned and no
\* noise is drawn.  ran tells whether the body ran.
st_cache_data(cache, hours, noise) ==
    IF hours \in DOMAIN cache
    THEN [value |-> cache[hours], cache |-> cache, ran |-> FALSE]
    ELSE LET data == generate_forecast_data(hours, noise)
         IN  [value |-> data, cache |-> (hours :> data) @@ cache, ran |-> TRUE]

\* The samples one call of the body draws, by iteration: b in every
\* iteration except n in iteration p.
NoiseProfile(b, p, n) == [i \in 0 .. 71 |-> IF i = p THEN n ELSE b]

ZeroNoise == NoiseProfile(0, 0, 0)

-----------------------------------------------------------------------------
(* State shared by every specification. *)

\* An st.session_state with no key set, and a cache with nothing stored.
EmptyDict == [k \in {} |-> 0]

NoPage == [session |-> "none"]

Idle == [fn |-> "idle"]

NoRerun == [scheduled |-> FALSE]

ServerStart ==
    /\ script \in {"app", "app1"}
    /\ session_state = [s \in Sessions |-> EmptyDict]
    /\ forecast_cache = EmptyDict
    /\ page = NoPage
    /\ rerun = [s \in Sessions |-> NoRerun]

-----------------------------------------------------------------------------
(* One run of the script for one session. *)

\* Python's int() on a float: truncation towards zero, here of x/d.
int(x, d) == IF x >= 0 THEN x \div d ELSE -((-x) \div d)

\* A script whose initialisation assigns the seed on every run.
InitAlwaysSeeds(app, ss) ==
    IF app = "app1"
    THEN [current_aqi |-> 287 * Scale, last_update |-> "now", user_mode |-> "Government"]
    ELSE [current_aqi |-> 287 * Scale, last_update |-> "now"]

\* "Initialize Session State": each key is set only when it is absent.
\* last_update holds the wall-clock time of the session's first run, which
\* nothing reads; it is kept as a token.
InitSessionState(app, ss) ==
    LET a == IF "current_aqi" \in DOMAIN ss
             THEN ss ELSE ("current_aqi" :> 287 * Scale) @@ ss
        b == IF "last_update" \in DOMAIN a
             THEN a ELSE ("last_update" :> "now") @@ a
    IN  IF app = "app1" /\ "user_mode" \notin DOMAIN b
        THEN ("user_mode" :> "Government") @@ b ELSE b

\* A walk step that forgets the upper bound.
WalkStepNoUpperBound(ss, n) ==
    [ss EXCEPT !["current_aqi"] = max(150 * Scale, @ + n)]

\* A script that takes a second walk step before it draws the main page.
WalkStepTwice(ss, n) ==
    LET once == max(150 * Scale, min(400 * Scale, ss.current_aqi + n))
    IN  [ss EXCEPT !["current_aqi"] = max(150 * Scale, min(400 * Scale, once + n))]

\* "Simulate real-time update": n is the sample of np.random.normal(0, 2).
WalkStep(ss, n) ==
    [ss EXCEPT !["current_aqi"] = max(150 * Scale, min(400 * Scale, @ + n))]

\* The sidebar's "Real-time AQI" block; value is the number it was drawn from.
Sidebar(current_aqi) ==
    [value |-> current_aqi,
     color |-> get_aqi_color(current_aqi),
     shown |-> int(current_aqi, Scale),
     level |-> get_aqi_level(current_aqi)]

\* A health alert that turns red at 300 already.
HealthAlertFrom300(current_aqi) ==
    [kind |-> IF ~Lt(current_aqi, 300 * Scale) THEN "error"
              ELSE IF Gt(current_aqi, 200 * Scale) THEN "warning"
              ELSE "info",
     advisory |-> get_health_advisory(current_aqi)]

\* "Health Alert": which box is shown, and its advisory text.
HealthAlert(current_aqi) ==
    [kind |-> IF Gt(current_aqi, 300 * Scale) THEN "error"
              ELSE IF Gt(current_aqi, 200 * Scale) THEN "warning"
              ELSE "info",
     advisory |-> get_health_advisory(current_aqi)]

\* The four metric cards: int(aqi), int(aqi * 0.45), int(aqi * 0.75) and
\* int(aqi + 15).  The random "from yesterday" delta is not modelled.
KeyMetrics(current_aqi) ==
    [aqi |-> int(current_aqi, Scale),
     pm25 |-> int(9 * current_aqi, 20 * Scale),
     pm10 |-> int(3 * current_aqi, 4 * Scale),
     next24 |-> int(current_aqi + 15 * Scale, Scale)]

NoMetrics == [aqi |-> -1, pm25 |-> -1, pm10 |-> -1, next24 |-> -1]

\* A view that shows no forecast leaves the cache alone.
NoForecast(cache) == [value |-> <<>>, cache |-> cache, ran |-> FALSE, hours |-> 0]

ShowForecast(cache, hours, noise) ==
    LET r == st_cache_data(cache, hours, noise)
    IN  [value |-> r.value, cache |-> r.cache, ran |-> r.ran, hours |-> hours]

\* A script that ends with an unconditional rerun.
RerunWhateverTheBox(in) ==
    [scheduled |-> TRUE, user_mode |-> in.user_mode, view_mode |-> in.view_mode]

\* "Auto-refresh logic", the last statement of both scripts:
\*     if auto_refresh: time.sleep(15); st.rerun()
\* st.rerun() runs the script again for the same session with the widget
\* values of this run; a widget change during the sleep replaces it.
auto_refresh_logic(in) ==
    IF in.auto_refresh
    THEN [scheduled |-> TRUE, user_mode |-> in.user_mode, view_mode |-> in.view_mode]
    ELSE NoRerun

\* What one run leaves behind: the session's state, the cache, the page and
\* the rerun it asked for.  in holds the run's inputs: the widget values,
\* the random samples, and what triggered the run; main tells what the main
\* page drew, with the script variable view_mode as the run left it.
RunResult(s, in, ss, main, fc, metrics) ==
    [ss |-> ss,
     cache |-> fc.cache,
     rerun |-> IF main.failure = "none" THEN auto_refresh_logic(in) ELSE NoRerun,
     page |-> [session |-> s,
               reads_view_mode |-> main.reads_view_mode,
               failure |-> main.failure,
               trigger |-> in.trigger,
               auto_refresh |-> in.auto_refresh,
               user_mode |-> in.user_mode,
               view_mode |-> main.view_mode,
               sidebar |-> Sidebar(ss.current_aqi),
               alert |-> HealthAlert(ss.current_aqi),
               metrics |-> metrics,
               shows_forecast |-> fc.hours # 0,
               hours |-> fc.hours,
               forecast |-> fc.value,
               ran |-> fc.ran,
               drawn |-> IF fc.ran THEN in.forecast_noise ELSE EmptyDict]]

Unassigned == "<unassigned>"

\* app.py draws the view radio in every run and dispatches on its value.
AppMainContent(view_mode) ==
    [content |-> view_mode, view_mode |-> view_mode, reads_view_mode |-> TRUE,
     failure |-> "none"]

\* app.py, top to bottom.
RunApp(s, ss0, cache, in) ==
    LET ss == WalkStep(InitSessionState("app", ss0), in.walk_noise)
        current_aqi == ss.current_aqi
        main == AppMainContent(in.view_mode)
    IN  IF main.content = "Overview"
        THEN RunResult(s, in, ss, main, NoForecast(cache), KeyMetrics(current_aqi))
        ELSE IF main.content = "Forecast"
        THEN RunResult(s, in, ss, main, ShowForecast(cache, 72, in.forecast_noise),
                       NoMetrics)
        ELSE RunResult(s, in, ss, main, NoForecast(cache), NoMetrics)

\* app1.py's sidebar: the view radio is drawn, and the script's variable
\* view_mode assigned, only under  if user_mode == "Government Dashboard".
\* Every run starts with no script variable assigned.
SidebarViewMode(user_mode, choice) ==
    IF user_mode = "Government Dashboard" THEN choice ELSE Unassigned

\* What reading the script variable view_mode does.
ReadViewMode(view_mode) ==
    IF view_mode = Unassigned
    THEN [content |-> "none", view_mode |-> view_mode, reads_view_mode |-> TRUE,
          failure |-> "NameError: name 'view_mode' is not defined"]
    ELSE [content |-> view_mode, view_mode |-> view_mode, reads_view_mode |-> TRUE,
          failure |-> "none"]

\* A main page that tests view_mode for every dashboard, as app.py does.
MainContentByViewOnly(user_mode, view_mode) == ReadViewMode(view_mode)

\* app1.py's main page:  if user_mode == "Citizen Dashboard": ...
\* elif user_mode == "Government Dashboard": if view_mode == "Overview": ...
MainContent(user_mode, view_mode) ==
    IF user_mode = "Citizen Dashboard"
    THEN [content |-> "Citizen", view_mode |-> view_mode, reads_view_mode |-> FALSE,
          failure |-> "none"]
    ELSE IF user_mode = "Government Dashboard"
    THEN ReadViewMode(view_mode)
    ELSE [content |-> "none", view_mode |-> view_mode, reads_view_mode |-> FALSE,
          failure |-> "none"]

\* app1.py, top to bottom.  The radio's value is stored in user_mode before
\* the walk step; the Citizen dashboard always shows the 24-hour forecast.
\* A run that fails stops where it failed and keeps what it wrote so far.
RunApp1(s, ss0, cache, in) ==
    LET ss1 == [InitSessionState("app1", ss0) EXCEPT !["user_mode"] = in.user_mode]
        ss == WalkStep(ss1, in.walk_noise)
        current_aqi == ss.current_aqi
        view_mode == SidebarViewMode(in.user_mode, in.view_mode)
        main == MainContent(in.user_mode, view_mode)
    IN  IF main.content = "Citizen"
        THEN RunResult(s, in, ss, main, ShowForecast(cache, 24, in.forecast_noise),
                       KeyMetrics(current_aqi))
        ELSE IF main.content = "Overview"
        THEN RunResult(s, in, ss, main, NoForecast(cache), KeyMetrics(current_aqi))
        ELSE IF main.content = "Forecast"
        THEN RunResult(s, in, ss, main, ShowForecast(cache, 72, in.forecast_noise),
                       NoMetrics)
        ELSE RunResult(s, in, ss, main, NoForecast(cache), NoMetrics)

\* Session state kept in one object shared by all sessions.
SetInSharedGlobal(all, s, ss) == [t \in Sessions |-> ss]

\* st.session_state belongs to the session whose run writes it.
st_session_state_set(all, s, ss) == [all EXCEPT ![s] = ss]

\* Samples of np.random.normal(0, 2), in units of 1/Scale: one far below
\* the clamp's range, and one of a little more than 50, which climbs through
\* every band the walk can visit until the upper bound cuts it.
WalkNoise == {-300 * Scale, 50 * Scale + 1}

\* The forecast noise a run that shows a forecast may draw; a run that
\* shows none draws none.
RunNoiseProfiles == {ZeroNoise, NoiseProfile(7, 9, 300 * Scale)}

NoNoise == {EmptyDict}

\* The views, by what the script does for them: "Overview" shows the metric
\* cards, "Forecast" the 72-hour forecast; "Sources" stands for itself and
\* for "Policy Impact" and "Hotspots", which like it draw static tables only.
\* Here the auto-refresh box keeps its default, unchecked, so every run is
\* triggered by the user; SpecRefresh below lets the user check it.

AppInputs ==
    [user_mode : {"n/a"},
     view_mode : {"Overview", "Sources"},
     auto_refresh : {FALSE},
     trigger : {"user"},
     walk_noise : WalkNoise,
     forecast_noise : NoNoise]
    \cup
    [user_mode : {"n/a"},
     view_mode : {"Forecast"},
     auto_refresh : {FALSE},
     trigger : {"user"},
     walk_noise : WalkNoise,
     forecast_noise : RunNoiseProfiles]

\* In Citizen mode the view radio is not drawn and offers no choice.
App1Inputs ==
    [user_mode : {"Government Dashboard"},
     view_mode : {"Overview", "Sources"},
     auto_refresh : {FALSE},
     trigger : {"user"},
     walk_noise : WalkNoise,
     forecast_noise : NoNoise]
    \cup
    [user_mode : {"Government Dashboard"},
     view_mode : {"Forecast"},
     auto_refresh : {FALSE},
     trigger : {"user"},
     walk_noise : WalkNoise,
     forecast_noise : RunNoiseProfiles]
    \cup
    [user_mode : {"Citizen Dashboard"},
     view_mode : {Unassigned},
     auto_refresh : {FALSE},
     trigger : {"user"},
     walk_noise : WalkNoise,
     forecast_noise : RunNoiseProfiles]

Init ==
    /\ ServerStart
    /\ call = Idle

\* A run of app.py for session s: its first page load or a widget change.
\* (r ranges over the one result of the run, which is thereby computed once.)
RenderApp(s) ==
    /\ script = "app"
    /\ \E in \in AppInputs :
          \E r \in {RunApp(s, session_state[s], forecast_cache, in)} :
              /\ session_state' = st_session_state_set(session_state, s, r.ss)
              /\ forecast_cache' = r.cache
              /\ page' = r.page
              /\ rerun' = [rerun EXCEPT ![s] = r.rerun]
    /\ UNCHANGED <<script, call>>

\* A run of app1.py for session s.
RenderApp1(s) ==
    /\ script = "app1"
    /\ \E in \in App1Inputs :
          \E r \in {RunApp1(s, session_state[s], forecast_cache, in)} :
              /\ session_state' = st_session_state_set(session_state, s, r.ss)
              /\ forecast_cache' = r.cache
              /\ page' = r.page
              /\ rerun' = [rerun EXCEPT ![s] = r.rerun]
    /\ UNCHANGED <<script, call>>

Next ==
    \E s \in Sessions :
        \/ RenderApp(s)
        \/ RenderApp1(s)

Spec == Init /\ [][Next]_vars

-----------------------------------------------------------------------------
(* The dashboard with the auto-refresh box in use.  The views are those that
   show the live value only: the metric cards or a static table, and in
   app1.py the Citizen dashboard with its 24-hour forecast. *)

RefreshNoiseProfiles == {ZeroNoise}

\* Samples of np.random.normal(0, 2) for these runs: one far below the
\* clamp's range and one of a little more than 125, so that the walk visits
\* 150, 275.25 and 400, a value in each band it can reach.
RefreshWalkNoise == {-300 * Scale, 125 * Scale + 1}

\* The widget values a user can set, with the samples a run then draws.
RefreshInputs(app) ==
    IF app = "app"
    THEN [user_mode : {"n/a"},
          view_mode : {"Overview", "Sources"},
          auto_refresh : BOOLEAN,
          trigger : {"user"},
          walk_noise : RefreshWalkNoise,
          forecast_noise : NoNoise]
    ELSE [user_mode : {"Government Dashboard"},
          view_mode : {"Overview"},
          auto_refresh : BOOLEAN,
          trigger : {"user"},
          walk_noise : RefreshWalkNoise,
          forecast_noise : NoNoise]
         \cup
         [user_mode : {"Citizen Dashboard"},
          view_mode : {Unassigned},
          auto_refresh : BOOLEAN,
          trigger : {"user"},
          walk_noise : RefreshWalkNoise,
          forecast_noise : RefreshNoiseProfiles]

\* The inputs of the run st.rerun() starts: the widget values are those of
\* the run that called it, the box still checked; the samples are fresh.
RerunInputs(scheduled) ==
    [user_mode : {scheduled.user_mode},
     view_mode : {scheduled.view_mode},
     auto_refresh : {TRUE},
     trigger : {"timer"},
     walk_noise : RefreshWalkNoise,
     forecast_noise : IF scheduled.user_mode = "Citizen Dashboard"
                      THEN RefreshNoiseProfiles ELSE NoNoise]

RunScript(app, s, ss0, cache, in) ==
    IF app = "app" THEN RunApp(s, ss0, cache, in) ELSE RunApp1(s, ss0, cache, in)

\* Session s loads the page or changes a widget: the script runs at once,
\* and a rerun that was waiting in time.sleep(15) is dropped.
Interact(s) ==
    /\ \E in \in RefreshInputs(script) :
          \E r \in {RunScript(script, s, session_state[s], forecast_cache, in)} :
              /\ session_state' = st_session_state_set(session_state, s, r.ss)
              /\ forecast_cache' = r.cache
              /\ page' = r.page
              /\ rerun' = [rerun EXCEPT ![s] = r.rerun]
    /\ UNCHANGED <<script, call>>

\* The fifteen seconds are over and st.rerun() runs the script again.
TimedRerun(s) ==
    /\ rerun[s].scheduled
    /\ \E in \in RerunInputs(rerun[s]) :
          \E r \in {RunScript(script, s, session_state[s], forecast_cache, in)} :
              /\ session_state' = st_session_state_set(session_state, s, r.ss)
              /\ forecast_cache' = r.cache
              /\ page' = r.page
              /\ rerun' = [rerun EXCEPT ![s] = r.rerun]
    /\ UNCHANGED <<script, call>>

NextRefresh ==
    \E s \in Sessions :
        \/ Interact(s)
        \/ TimedRerun(s)

\* A script that sleeps in time.sleep(15) wakes up and calls st.rerun()
\* unless the user's next interaction comes first.
SpecRefresh ==
    /\ Init
    /\ [][NextRefresh]_vars
    /\ \A s \in Sessions : WF_vars(TimedRerun(s))

-----------------------------------------------------------------------------
(* Direct calls of the classifier on arbitrary inputs. *)

\* How far below 0 and above 500 the classifier's inputs range, in AQI units.
ClassifierMargin == 60

ClassifierInputs ==
    (0 - ClassifierMargin) * Scale .. (500 + ClassifierMargin) * Scale

InitClassify ==
    /\ ServerStart
    /\ \/ \E v \in ClassifierInputs :
             call = [fn |-> "classify", aqi |-> v, done |-> FALSE]
       \/ call = [fn |-> "classify", aqi |-> NaN, done |-> FALSE]

Classify ==
    /\ call.fn = "classify"
    /\ ~call.done
    /\ call' = [fn |-> "classify", aqi |-> call.aqi, done |-> TRUE,
                color |-> get_aqi_color(call.aqi),
                level |-> get_aqi_level(call.aqi),
                advisory |-> get_health_advisory(call.aqi),
                alert |-> HealthAlert(call.aqi)]
    /\ UNCHANGED <<script, session_state, forecast_cache, page, rerun>>

NextClassify == Classify

SpecClassify == InitClassify /\ [][NextClassify]_vars

-----------------------------------------------------------------------------
(* Properties of the classifier, checked under SpecClassify. *)

\* The six bands of the data model, lowest first: band k is the range
\* (BandUpper[k-1], BandUpper[k]], open below for k = 1 and above for k = 6.
BandUpper == <<50 * Scale, 100 * Scale, 200 * Scale, 300 * Scale, 400 * Scale>>

BandLevels == <<"Good", "Satisfactory", "Moderate", "Poor", "Very Poor", "Severe">>

BandColors == <<"#10b981", "#84cc16", "#f59e0b", "#ef4444", "#b91c1c", "#7f1d1d">>

BandAdvisories ==
    << "Air quality is good. Enjoy outdoor activities!",
       "Air quality is acceptable for most people.",
       "Sensitive groups should limit outdoor exposure.",
       "Everyone should limit outdoor activities.",
       "Avoid outdoor activities. Use N95 masks.",
       "EMERGENCY: Stay indoors. Health alert for all!" >>

InBand(k, v) ==
    /\ (k = 1 \/ v > BandUpper[k - 1])
    /\ (k = 6 \/ v <= BandUpper[k])

Classified == call.fn = "classify" /\ call.done

\* C1: every AQI value gets the label and the colour of the band it lies in,
\* the breakpoints 50, 100, 200, 300, 400 belonging to the lower band; 0 is
\* Good, 250 is Poor and 500 is Severe.
C1_BandLabelAndColor ==
    (Classified /\ call.aqi # NaN) =>
        LET v == call.aqi
            is(level, color) == call.level = level /\ call.color = color
        IN  /\ (v <= 50 * Scale) => is("Good", "#10b981")
            /\ (50 * Scale < v /\ v <= 100 * Scale) => is("Satisfactory", "#84cc16")
            /\ (100 * Scale < v /\ v <= 200 * Scale) => is("Moderate", "#f59e0b")
            /\ (200 * Scale < v /\ v <= 300 * Scale) => is("Poor", "#ef4444")
            /\ (300 * Scale < v /\ v <= 400 * Scale) => is("Very Poor", "#b91c1c")
            /\ (v > 400 * Scale) => is("Severe", "#7f1d1d")
            /\ (v = 0) => is("Good", "#10b981")
            /\ (v = 250 * Scale) => is("Poor", "#ef4444")
            /\ (v = 500 * Scale) => is("Severe", "#7f1d1d")

\* The breakpoint 200 has been classified, into the lower band.
C1_Witness ==
    Classified /\ call.aqi = 200 * Scale /\ call.level = "Moderate"
               /\ call.color = "#f59e0b"

\* C4: the colour, the label and the advisory returned for one value are
\* always those of one and the same band index.
C4_SameBandIndex ==
    Classified =>
        \E k \in 1 .. 6 :
            /\ call.color = BandColors[k]
            /\ call.level = BandLevels[k]
            /\ call.advisory = BandAdvisories[k]

\* The breakpoint 300 has been classified, and all three lookups chose Poor.
C4_Witness ==
    /\ Classified
    /\ call.aqi = 300 * Scale
    /\ call.color = BandColors[4]
    /\ call.level = BandLevels[4]
    /\ call.advisory = BandAdvisories[4]

\* C5: every number, negative values and values above 500 included, lies in
\* exactly one band and is given that band's label and no other.
C5_ExactlyOneBand ==
    (Classified /\ call.aqi # NaN) =>
        \E k \in 1 .. 6 :
            /\ InBand(k, call.aqi)
            /\ call.level = BandLevels[k]
            /\ \A j \in (1 .. 6) \ {k} :
                  ~InBand(j, call.aqi) /\ call.level # BandLevels[j]

\* A negative value has been classified.
C5_Witness == Classified /\ call.aqi # NaN /\ call.aqi < 0 /\ call.level = "Good"

\* C11: a NaN input fails all five threshold tests of every chain, raises
\* nothing, and is classified as the default band: the call completes with
\* the label "Severe" and the colour "#7f1d1d".
C11_NaNFallsThroughToSevere ==
    (call.fn = "classify" /\ call.aqi = NaN) =>
        /\ \A bound \in {50, 100, 200, 300, 400} : ~Le(call.aqi, bound * Scale)
        /\ call.done =>
              /\ call.level = "Severe"
              /\ call.color = "#7f1d1d"

\* NaN has been classified.
C11_Witness ==
    Classified /\ call.aqi = NaN /\ call.level = "Severe" /\ call.color = "#7f1d1d"

\* C15: the health alert drawn for a value agrees with the label the
\* classifier gives it: the error box exactly for Very Poor and Severe, that
\* is above 300, the warning box exactly for Poor, that is above 200 and at
\* most 300, the info box for the rest; and it is one of the three.
C15_AlertAgreesWithLevel ==
    (Classified /\ call.aqi # NaN) =>
        LET v == call.aqi
            kind == call.alert.kind
        IN  /\ kind \in {"error", "warning", "info"}
            /\ kind = "error" <=> call.level \in {"Very Poor", "Severe"}
            /\ kind = "error" <=> v > 300 * Scale
            /\ kind = "warning" <=> call.level = "Poor"
            /\ kind = "warning" <=> (200 * Scale < v /\ v <= 300 * Scale)
            /\ kind = "info" <=> call.level \in {"Good", "Satisfactory", "Moderate"}
            /\ call.alert.advisory = call.advisory

\* The breakpoint 300 has been given the warning box and the label Poor.
C15_Witness ==
    /\ Classified
    /\ call.aqi = 300 * Scale
    /\ call.alert.kind = "warning"
    /\ call.level = "Poor"

-----------------------------------------------------------------------------
(* Direct calls of the forecast generator on a fresh server. *)

ForecastHours == {-1, 0, 1, 24, 72}

\* Noise samples, in units of 1/Scale: zero, small, and far beyond the clamp.
ForecastNoise == {-300 * Scale, -(10 * Scale + 1), 0, 7, 300 * Scale}

SpikeAt == {0, 9, 23, 37, 71}

ForecastNoiseProfiles ==
    {NoiseProfile(b, p, n) : b \in ForecastNoise, p \in SpikeAt, n \in ForecastNoise}

InitForecast ==
    /\ ServerStart
    /\ \E h \in ForecastHours, noise \in ForecastNoiseProfiles :
          call = [fn |-> "forecast", hours |-> h, noise |-> noise, done |-> FALSE]

Forecast ==
    /\ call.fn = "forecast"
    /\ ~call.done
    /\ LET r == st_cache_data(forecast_cache, call.hours, call.noise)
       IN  /\ call' = [fn |-> "forecast", hours |-> call.hours, noise |-> call.noise,
                       done |-> TRUE, data |-> r.value, ran |-> r.ran]
           /\ forecast_cache' = r.cache
    /\ UNCHANGED <<script, session_state, page, rerun>>

NextForecast == Forecast

SpecForecast == InitForecast /\ [][NextForecast]_vars

-----------------------------------------------------------------------------
(* app1.py's safe zones: a filter and a sort of the hotspot table, and the
   "Recommended Safe Areas" section of the Citizen dashboard drawn from it.
   A table is a sequence of rows; a row has an Area and an AQI (the other
   columns are not read). *)

\* app1.py's hotspot table.
generate_hotspots ==
    << [Area |-> "Anand Vihar", AQI |-> 456 * Scale],
       [Area |-> "RK Puram", AQI |-> 389 * Scale],
       [Area |-> "Dwarka", AQI |-> 342 * Scale],
       [Area |-> "Rohini", AQI |-> 298 * Scale],
       [Area |-> "Punjabi Bagh", AQI |-> 276 * Scale],
       [Area |-> "Lodhi Road", AQI |-> 189 * Scale],
       [Area |-> "ITO", AQI |-> 156 * Scale],
       [Area |-> "Nehru Nagar", AQI |-> 123 * Scale] >>

\* df[df['AQI'] < bound]: the rows whose comparison is true, in table order.
rows_below(df, bound) == SelectSeq(df, LAMBDA row : Lt(row.AQI, bound))

\* One insertion of the sort: row goes behind the rows whose AQI is not
\* greater than its own.
RECURSIVE insert_by_AQI(_, _)
insert_by_AQI(sorted, row) ==
    IF sorted = << >> THEN << row >>
    ELSE IF Gt(Head(sorted).AQI, row.AQI) THEN << row >> \o sorted
    ELSE << Head(sorted) >> \o insert_by_AQI(Tail(sorted), row)

\* df.sort_values('AQI'): ascending; the insertion sort numpy runs on a
\* column this short, which keeps rows of equal AQI in table order.
RECURSIVE sort_values(_)
sort_values(df) ==
    IF df = << >> THEN << >>
    ELSE insert_by_AQI(sort_values(SubSeq(df, 1, Len(df) - 1)), df[Len(df)])

\* df.head(n)
head(df, n) == SubSeq(df, 1, IF Len(df) < n THEN Len(df) ELSE n)

\* A filter that admits the bound itself.
SafeZonesUpTo200(hotspots_df) ==
    sort_values(SelectSeq(hotspots_df, LAMBDA row : Le(row.AQI, 200 * Scale)))

get_safe_zones(hotspots_df) == sort_values(rows_below(hotspots_df, 200 * Scale))

\* "Safe Zones Recommendation": the best area and up to three cards, or the
\* warning when the table of safe zones is empty.
SafeZonesSection(hotspots) ==
    LET safe_zones == get_safe_zones(hotspots)
        card(row) == [Area |-> row.Area,
                      AQI |-> int(row.AQI, Scale),
                      Status |-> get_aqi_level(row.AQI)]
        top == head(safe_zones, 3)
    IN  IF Len(safe_zones) > 0
        THEN [warning |-> FALSE,
              best |-> << card(safe_zones[1]) >>,
              listed |-> [idx \in 1 .. Len(top) |-> card(top[idx])]]
        ELSE [warning |-> TRUE, best |-> << >>, listed |-> << >>]

\* Direct calls of get_safe_zones: the largest table tried, the AQI values
\* its rows take (around the bound 200, and well below and above it), and
\* the tables, whose rows carry distinct area names.
MaxAreas == 5

AreaAqis == {123 * Scale, 200 * Scale - 1, 200 * Scale, 200 * Scale + 1, 276 * Scale}

AreaNames == << "Area 1", "Area 2", "Area 3", "Area 4", "Area 5", "Area 6" >>

HotspotTables ==
    {generate_hotspots} \cup
    UNION {{[i \in 1 .. n |-> [Area |-> AreaNames[i], AQI |-> aqi[i]]] :
               aqi \in [1 .. n -> AreaAqis]} : n \in 0 .. MaxAreas}

InitSafeZones ==
    /\ ServerStart
    /\ script = "app1"
    /\ \E hotspots \in HotspotTables :
          call = [fn |-> "safe_zones", hotspots |-> hotspots, done |-> FALSE]

SafeZones ==
    /\ call.fn = "safe_zones"
    /\ ~call.done
    /\ call' = [fn |-> "safe_zones", hotspots |-> call.hotspots, done |-> TRUE,
                safe_zones |-> get_safe_zones(call.hotspots),
                section |-> SafeZonesSection(call.hotspots)]
    /\ UNCHANGED <<script, session_state, forecast_cache, page, rerun>>

NextSafeZones == SafeZones

SpecSafeZones == InitSafeZones /\ [][NextSafeZones]_vars

-----------------------------------------------------------------------------
(* Properties of the safe zones, checked under SpecSafeZones. *)

SafeZonesDone == call.fn = "safe_zones" /\ call.done

\* The rows of a table, as a set.
Rows(df) == {df[i] : i \in 1 .. Len(df)}

\* C18: get_safe_zones returns exactly the rows whose AQI is below 200, in
\* ascending order of AQI.  When there is such a row, the best area shown
\* has the least AQI of all areas, the cards are the first three safe zones
\* at most, and every card's status is Good, Satisfactory or Moderate.  The
\* warning is shown exactly when no area is below 200; an area at 200 is
\* Moderate and is not a safe zone.
C18_SafeZonesBelow200Ascending ==
    SafeZonesDone =>
        LET all == call.hotspots
            safe == call.safe_zones
            section == call.section
            below == {row \in Rows(all) : row.AQI < 200 * Scale}
        IN  /\ Rows(safe) = below
            /\ Len(safe) = Cardinality(below)
            /\ \A i, j \in 1 .. Len(safe) : i < j => safe[i].AQI <= safe[j].AQI
            /\ section.warning <=> below = {}
            /\ section.warning => section.best = << >> /\ section.listed = << >>
            /\ ~section.warning =>
                  /\ section.best[1].Area = safe[1].Area
                  /\ \A row \in Rows(all) : safe[1].AQI <= row.AQI
                  /\ Len(section.listed) = (IF Len(safe) < 3 THEN Len(safe) ELSE 3)
                  /\ \A i \in 1 .. Len(section.listed) :
                        /\ section.listed[i].Area = safe[i].Area
                        /\ section.listed[i].Status \in {"Good", "Satisfactory", "Moderate"}
            /\ \A row \in Rows(all) :
                  row.AQI = 200 * Scale =>
                      get_aqi_level(row.AQI) = "Moderate" /\ row \notin Rows(safe)

\* A table with four areas below 200 and one at exactly 200: three cards
\* are shown, and the area at 200 is not among the safe zones.
C18_Witness ==
    /\ SafeZonesDone
    /\ Len(call.hotspots) = 5
    /\ call.hotspots[1].AQI = 200 * Scale
    /\ Len(call.safe_zones) = 4
    /\ Len(call.section.listed) = 3
    /\ call.section.best[1].AQI = 123
    /\ call.hotspots[5].AQI = 123 * Scale
    /\ call.section.best[1].Area = "Area 5"

-----------------------------------------------------------------------------
(* Properties of the forecast generator, checked under SpecForecast. *)

Forecasted == call.fn = "forecast" /\ call.done

\* The mathematical clamp of x into [lo, hi].
Clamp(x, lo, hi) == IF x < lo THEN lo ELSE IF x > hi THEN hi ELSE x

\* C3: for H = 24 and H = 72 the generator returns exactly H points, with
\* Hour = 0, 1, ..., H-1 in that order, and every AQI lies in [50, 500]
\* whatever the noise samples are.
C3_ForecastShape ==
    (Forecasted /\ call.hours \in {24, 72}) =>
        /\ Len(call.data) = call.hours
        /\ \A i \in 1 .. Len(call.data) :
              /\ call.data[i].Hour = i - 1
              /\ 50 * Scale <= call.data[i].AQI
              /\ call.data[i].AQI <= 500 * Scale

\* A 72-point forecast has been generated in which the noise drove one point
\* to the upper bound and another to the lower bound.
C3_Witness ==
    /\ Forecasted
    /\ call.hours = 72
    /\ Len(call.data) = 72
    /\ \E i, j \in 1 .. 72 :
          call.data[i].AQI = 500 * Scale /\ call.data[j].AQI = 50 * Scale

\* C6: with the noise forced to zero, point i is clamp(250 + 50*sin(i/12),
\* 50, 500) for every i in [0, H), and point 0 is 250.
C6_ZeroNoiseCurve ==
    (Forecasted /\ call.noise = ZeroNoise) =>
        /\ \A i \in 0 .. Len(call.data) - 1 :
              call.data[i + 1].AQI =
                  Clamp(250 * Scale + np_sin_50(i), 50 * Scale, 500 * Scale)
        /\ (call.hours >= 1) => call.data[1].AQI = 250 * Scale

\* A 72-point forecast has been generated with zero noise.
C6_Witness ==
    /\ Forecasted
    /\ call.noise = ZeroNoise
    /\ call.hours = 72
    /\ Len(call.data) = 72
    /\ call.data[1].AQI = 250 * Scale

\* C12: called with a horizon H <= 0 the generator signals nothing: the call
\* completes, its body runs, and it returns a sequence of zero points.
C12_EmptyForecastForNonPositiveHorizon ==
    (Forecasted /\ call.hours <= 0) =>
        /\ call.ran
        /\ call.data = << >>
        /\ Len(call.data) = 0

\* The generator has been called with the horizon -1 and has returned.
C12_Witness ==
    Forecasted /\ call.hours = -1 /\ call.ran /\ Len(call.data) = 0

\* C19: in every point PM25 is 0.45 times the unclamped sample 250 +
\* 50*sin(i/12) + noise, while AQI is the sample clamped to [50, 500].  So
\* PM25 is 0.45 times the point's AQI exactly when the sample lies in
\* [50, 500]; a sample outside gives a PM25 outside [22.5, 225] that
\* disagrees with the AQI.  (PM25 is kept in units of 1/(20*Scale), in which
\* 0.45 * x is 9 * x, 22.5 is 9 * 50 * Scale and 225 is 9 * 500 * Scale.)
C19_Pm25FromUnclampedSample ==
    Forecasted =>
        \A i \in 1 .. Len(call.data) :
            LET sample == 250 * Scale + np_sin_50(i - 1) + call.noise[i - 1]
                point == call.data[i]
                inside == 50 * Scale <= sample /\ sample <= 500 * Scale
            IN  /\ point.PM25 = 9 * sample
                /\ point.AQI = Clamp(sample, 50 * Scale, 500 * Scale)
                /\ point.PM25 = 9 * point.AQI <=> inside
                /\ ~inside =>
                      /\ point.PM25 < 9 * 50 * Scale \/ point.PM25 > 9 * 500 * Scale
                      /\ point.PM25 # 9 * point.AQI

\* A forecast with one sample above 500, whose PM25 exceeds 225 while its
\* AQI is 500, and the other samples inside the range.
C19_Witness ==
    /\ Forecasted
    /\ call.hours = 24
    /\ call.data[10].AQI = 500 * Scale
    /\ call.data[10].PM25 > 9 * 500 * Scale
    /\ call.data[1].AQI = 250 * Scale
    /\ call.data[1].PM25 = 9 * 250 * Scale

-----------------------------------------------------------------------------
(* Properties of the running dashboard, checked under Spec. *)

Rendered == page.session \in Sessions

HasAqi(s) == "current_aqi" \in DOMAIN session_state[s]

\* C2: whatever noise is drawn, a session's current_aqi lies in [150, 400]
\* after every run, and so does the seed 287 a new session starts from.
C2_WalkWithinBounds ==
    /\ \A s \in Sessions :
          HasAqi(s) => /\ 150 * Scale <= session_state[s].current_aqi
                       /\ session_state[s].current_aqi <= 400 * Scale
    /\ 150 * Scale <= InitSessionState(script, EmptyDict).current_aqi
    /\ InitSessionState(script, EmptyDict).current_aqi <= 400 * Scale

\* One session's walk has been cut at the upper bound and the other's at the
\* lower bound: no sum of the modelled samples lands on 150 or 400 exactly.
C2_Witness ==
    /\ HasAqi("s1") /\ session_state["s1"].current_aqi = 400 * Scale
    /\ HasAqi("s2") /\ session_state["s2"].current_aqi = 150 * Scale

\* C16: the label every run shows for the live value is Moderate, Poor or
\* Very Poor, the value 400 included, and the advisory of its health alert
\* is the one of these three bands: never that of Good or Satisfactory, and
\* never the EMERGENCY one.
C16_LiveLevelModerateToVeryPoor ==
    Rendered =>
        /\ page.sidebar.level \in {"Moderate", "Poor", "Very Poor"}
        /\ page.sidebar.level = get_aqi_level(session_state[page.session].current_aqi)
        /\ page.alert.advisory \in {BandAdvisories[3], BandAdvisories[4], BandAdvisories[5]}
        /\ page.alert.advisory \notin {BandAdvisories[1], BandAdvisories[2], BandAdvisories[6]}

\* A run has shown the value 400, cut by the clamp, as Very Poor.
C16_Witness ==
    /\ Rendered
    /\ page.sidebar.value = 400 * Scale
    /\ page.sidebar.level = "Very Poor"
    /\ page.alert.advisory = BandAdvisories[5]

\* C17: app1.py never reads view_mode while it is unassigned, whatever the
\* order in which sessions switch between the two dashboards: a run reads
\* view_mode only when the Government dashboard is selected, the run has
\* then assigned it, and no run ends in an undefined-name failure.
C17_ViewModeNeverReadUnassigned ==
    (Rendered /\ script = "app1") =>
        /\ page.failure = "none"
        /\ page.reads_view_mode <=> page.user_mode = "Government Dashboard"
        /\ page.reads_view_mode => page.view_mode # Unassigned
        /\ page.view_mode # Unassigned <=> page.user_mode = "Government Dashboard"

\* A session's first run was in Citizen mode (its value is one upward step
\* from the seed) after the other session had used the Government dashboard.
C17_Witness ==
    /\ Rendered
    /\ script = "app1"
    /\ page.user_mode = "Citizen Dashboard"
    /\ ~page.reads_view_mode
    /\ page.failure = "none"
    /\ session_state[page.session].current_aqi = 287 * Scale + (50 * Scale + 1)
    /\ \E t \in Sessions \ {page.session} :
          HasAqi(t) /\ session_state[t].user_mode = "Government Dashboard"

\* C7: a run seeds current_aqi with 287 only when the session has none; in
\* every other run the new value is clamp(previous + noise, 150, 400) of the
\* value the session's previous run left.
C7_SeededOnceThenWalks ==
    [][\A s \in Sessions :
          page'.session = s =>
              LET previous == IF HasAqi(s) THEN session_state[s].current_aqi
                              ELSE 287 * Scale
              IN  \E n \in WalkNoise :
                     session_state'[s].current_aqi =
                         Clamp(previous + n, 150 * Scale, 400 * Scale)]_vars

\* A session holds 150 plus one upward sample: a value that cannot follow the
\* seed directly, only a previous run's 150.
C7_Witness ==
    \E s \in Sessions :
        HasAqi(s) /\ session_state[s].current_aqi = 150 * Scale + (50 * Scale + 1)

\* C8 as stated: every run that shows a forecast has run the generator's
\* body, drawing fresh noise.
C8_EveryForecastRegenerated == (Rendered /\ page.shows_forecast) => page.ran

\* C8, amended: a run that shows the forecast for a horizon runs the
\* generator only when the cache holds no forecast for that horizon, and
\* stores the result; otherwise it shows the cached forecast and the cache is
\* unchanged.  A cached forecast is never replaced.
C8_ForecastGeneratedOncePerHorizon ==
    [][/\ \A h \in DOMAIN forecast_cache :
             h \in DOMAIN forecast_cache' /\ forecast_cache'[h] = forecast_cache[h]
       /\ (page'.session \in Sessions /\ page'.shows_forecast) =>
             IF page'.hours \in DOMAIN forecast_cache
             THEN /\ ~page'.ran
                  /\ page'.forecast = forecast_cache[page'.hours]
                  /\ forecast_cache' = forecast_cache
             ELSE /\ page'.ran
                  /\ page'.hours \in DOMAIN forecast_cache'
                  /\ forecast_cache'[page'.hours] = page'.forecast
                  /\ Len(page'.forecast) = page'.hours]_vars

\* A run has shown a cached 72-hour forecast without running the generator.
C8_Witness ==
    /\ Rendered
    /\ page.shows_forecast
    /\ page.hours = 72
    /\ ~page.ran
    /\ page.forecast = forecast_cache[72]

\* What a run would show as the forecast for horizon h if it drew noise.
ForecastShown(cache, h, noise) == st_cache_data(cache, h, noise).value

\* C9 as stated: a run of one session changes neither another session's
\* state nor the forecast that other session's next run would show.
C9_NothingSharedBetweenSessions ==
    [][\A s \in Sessions :
          (page'.session \in Sessions /\ page'.session # s) =>
              /\ session_state'[s] = session_state[s]
              /\ \A h \in {24, 72}, noise \in RunNoiseProfiles :
                    ForecastShown(forecast_cache', h, noise) =
                        ForecastShown(forecast_cache, h, noise)]_vars

\* C9, amended: a run changes the session state of its own session only, and
\* the live AQI it shows is its own session's value, one walk step from that
\* session's previous value.  (The forecast cache is shared by all sessions.)
C9_SessionStateIsPrivate ==
    [][\A s \in Sessions :
          IF page'.session = s
          THEN /\ page'.sidebar.value = session_state'[s].current_aqi
               /\ \E n \in WalkNoise :
                     LET own == InitSessionState(script, session_state[s])
                     IN  session_state'[s] =
                             IF script = "app1"
                             THEN WalkStep([own EXCEPT !["user_mode"] = page'.user_mode], n)
                             ELSE WalkStep(own, n)
          ELSE session_state'[s] = session_state[s]]_vars

\* Both sessions have run, their live values differ, and the latest run, of
\* s2, showed a forecast taken from the shared cache.
C9_Witness ==
    /\ HasAqi("s1") /\ HasAqi("s2")
    /\ session_state["s1"].current_aqi # session_state["s2"].current_aqi
    /\ page.session = "s2"
    /\ page.shows_forecast
    /\ ~page.ran

\* The points determined by the horizon and the noise samples alone.
PointsOf(hours, noise) ==
    [k \in 1 .. hours |->
        LET sample == 250 * Scale + np_sin_50(k - 1) + noise[k - 1]
        IN  [Hour |-> k - 1,
             AQI |-> Clamp(sample, 50 * Scale, 500 * Scale),
             PM25 |-> 9 * sample]]

\* C10: the points a run generates are determined by the horizon and the
\* noise it drew, whatever the live value is, and the run leaves in
\* current_aqi the value its sidebar showed before the forecast was made.
C10_ForecastIndependentOfWalk ==
    (Rendered /\ page.shows_forecast) =>
        /\ page.ran => page.forecast = PointsOf(page.hours, page.drawn)
        /\ session_state[page.session].current_aqi = page.sidebar.value

\* A forecast has been generated in a run whose live value was 150.
C10_Witness ==
    /\ Rendered
    /\ page.ran
    /\ page.drawn = ZeroNoise
    /\ page.sidebar.value = 150 * Scale
    /\ session_state[page.session].current_aqi = 150 * Scale

-----------------------------------------------------------------------------
(* Properties of the auto-refreshing dashboard, checked under SpecRefresh. *)

\* A step in which the script has run for session s triggered by the timer.
TimerRunOf(s) == page'.session = s /\ page'.trigger = "timer"

\* C13: a run asks for a rerun if and only if its auto-refresh box is
\* checked.  The timer reruns the script only for a session whose latest run
\* had the box checked, and that rerun takes one more walk step; a session
\* whose latest run had it unchecked keeps its current_aqi until the user's
\* next interaction.  A session whose box stays checked runs again and
\* again.
C13_RerunIffBoxChecked ==
    /\ [](Rendered => (rerun[page.session].scheduled <=> page.auto_refresh))
    /\ [][\A s \in Sessions :
              /\ TimerRunOf(s) =>
                    /\ rerun[s].scheduled
                    /\ \E n \in RefreshWalkNoise :
                          session_state'[s].current_aqi =
                              Clamp(session_state[s].current_aqi + n,
                                    150 * Scale, 400 * Scale)
              /\ (~rerun[s].scheduled /\ session_state'[s] # session_state[s]) =>
                    page'.session = s /\ page'.trigger = "user"]_vars
    /\ \A s \in Sessions :
          /\ (rerun[s].scheduled /\ page.session # s) ~> (page.session = s)
          /\ <>[](rerun[s].scheduled) => []<><<page'.session = s>>_vars

\* The timer has rerun the script for a session whose box is checked, while
\* the other session, its box unchecked, keeps the value its last run left.
C13_Witness ==
    /\ Rendered
    /\ page.trigger = "timer"
    /\ page.auto_refresh
    /\ rerun[page.session].scheduled
    /\ \E t \in Sessions \ {page.session} : HasAqi(t) /\ ~rerun[t].scheduled

\* C14: every run, triggered by the user or by the timer, takes exactly one
\* walk step from the value the session's previous run left (287 in a first
\* run), and everything the run shows is drawn from the value after that
\* step: the sidebar's number and level, the health alert and, in the views
\* that have them, the four metric cards.
C14_OneStepBeforeEveryUse ==
    [][LET s == page'.session
           previous == IF HasAqi(s) THEN session_state[s].current_aqi
                       ELSE 287 * Scale
       IN  /\ page'.trigger \in {"user", "timer"}
           /\ \E n \in RefreshWalkNoise :
                 LET post == Clamp(previous + n, 150 * Scale, 400 * Scale)
                 IN  /\ session_state'[s].current_aqi = post
                     /\ page'.sidebar.value = post
                     /\ page'.sidebar.shown = post \div Scale
                     /\ page'.sidebar.level = get_aqi_level(post)
                     /\ page'.sidebar.color = get_aqi_color(post)
                     /\ page'.alert.advisory = get_health_advisory(post)
                     /\ page'.alert.kind =
                            IF post > 300 * Scale THEN "error"
                            ELSE IF post > 200 * Scale THEN "warning" ELSE "info"
                     /\ \/ page'.metrics = NoMetrics
                        \/ page'.metrics =
                              [aqi |-> post \div Scale,
                               pm25 |-> (9 * post) \div (20 * Scale),
                               pm10 |-> (3 * post) \div (4 * Scale),
                               next24 |-> (post + 15 * Scale) \div Scale]]_vars

\* A timed rerun took the walk from 150 to 275.25 and showed 275 in the
\* sidebar and on the metric cards, with the warning drawn from that value.
C14_Witness ==
    /\ Rendered
    /\ page.trigger = "timer"
    /\ page.sidebar.value = 275 * Scale + 1
    /\ session_state[page.session].current_aqi = 275 * Scale + 1
    /\ page.sidebar.shown = 275
    /\ page.metrics.aqi = 275
    /\ page.metrics.pm25 = 123
    /\ page.alert.kind = "warning"

=============================================================================
